---- MODULE Spec2Model ----
(***************************************************************************)
(* Identifier reconciliation and synchronisation of the BMAD planning      *)
(* documents (epics, stories, tasks) with the remote issue tracker, as     *)
(* implemented by scripts/jira-sync-all.py, scripts/jira-post-import-fix.py *)
(* and scripts/jira-sync-comprehensive.py.                                  *)
(***************************************************************************)
EXTENDS Integers, Sequences, FiniteSets, TLC

(***************************************************************************)
(* Bounds of the model.                                                    *)
(***************************************************************************)
MaxRuns == 3        \* runs of a script started in one behaviour
MaxFails == 1       \* remote calls that fail in one behaviour
MaxCrashes == 1     \* interruptions (process killed) in one behaviour
MaxIssues == 11     \* remote issues the store holds
MaxAttempts == 6    \* answers of the remote store followed within one call

(***************************************************************************)
(* The document corpus: .bmad/epics/<epic>/README.md,                      *)
(* stories/<dir>/story-*.md and stories/<dir>/tasks/task-*.md.             *)
(* Two epics; each has a story numbered 1 kept in a directory "01-setup".  *)
(***************************************************************************)
Epics == {"A", "B"}
Stories == {"A1", "A2", "B1"}
Tasks == {"A1T1", "A1T2", "B1T1"}
Entities == Epics \cup Stories \cup Tasks

Kind(e) == IF e \in Epics THEN "Epic" ELSE IF e \in Stories THEN "Story" ELSE "Subtask"

\* sorted(EPICS_DIR.iterdir()); per epic: README, sorted story dirs, sorted task files
EpicOrder == <<"A", "B">>
StoriesOf(ep) == IF ep = "A" THEN <<"A1", "A2">> ELSE <<"B1">>
TasksOfStory(s) ==
  CASE s = "A1" -> <<"A1T1", "A1T2">>
    [] s = "B1" -> <<"B1T1">>
    [] OTHER -> <<>>
TasksOf(ep) == IF ep = "A" THEN <<"A1T1", "A1T2">> ELSE <<"B1T1">>

EpicOf(e) ==
  CASE e \in {"A", "A1", "A2", "A1T1", "A1T2"} -> "A"
    [] OTHER -> "B"
StoryOf(t) == IF t \in {"A1T1", "A1T2"} THEN "A1" ELSE "B1"

\* directory and file names
EpicDir(ep) == IF ep = "A" THEN "EPIC-1-AUTH" ELSE "EPIC-2-PLAT"
StoryDir(s) == IF s = "A2" THEN "02-login" ELSE "01-setup"
TaskStem(t) == IF t = "A1T2" THEN "task-02-wire" ELSE "task-01-init"
TaskNo(t) == IF t = "A1T2" THEN "2" ELSE "1"

\* the id a story header carries when it is written in the three-part form
\* (AUTH-001-1) and in the two-part form (PLAT-004)
Id3(s) == CASE s = "A1" -> "AUTH-001-1" [] s = "A2" -> "AUTH-001-2" [] OTHER -> "PLAT-001-1"
Id2(s) == CASE s = "A1" -> "AUTH-001" [] s = "A2" -> "AUTH-002" [] OTHER -> "PLAT-001"

\* the first heading line of a document; every document has its own
Title(e) == "# " \o e

(***************************************************************************)
(* String functions of the scripts, tabulated over the strings the corpus  *)
(* holds.                                                                  *)
(***************************************************************************)
\* id.split("-")[-1]
LastDashPart(id) ==
  CASE id \in {"AUTH-001-1", "PLAT-001-1"} -> "1"
    [] id = "AUTH-001-2" -> "2"
    [] id = "AUTH-001-2a" -> "2a"
    [] id \in {"AUTH-001", "PLAT-001"} -> "001"
    [] id = "AUTH-002" -> "002"
    [] id = "AUTH-002a" -> "002a"
    [] OTHER -> id

\* s.lstrip("0") or "0"
LStripZeros(s) ==
  CASE s \in {"001", "01"} -> "1"
    [] s \in {"002", "02"} -> "2"
    [] s = "002a" -> "2a"
    [] OTHER -> s

\* re.match(r'^(\d+)', story_dir.name)
DirNum(dir) ==
  CASE dir = "01-setup" -> "01"
    [] dir \in {"02-login", "02a-oauth"} -> "02"
    [] OTHER -> ""

\* name[5:] when name.startswith("EPIC-"), and name[5:].split("-")[0]
EpicTail(name) == CASE name = "EPIC-1-AUTH" -> "1-AUTH" [] name = "EPIC-2-PLAT" -> "2-PLAT" [] OTHER -> ""
EpicShort(name) == CASE name = "EPIC-1-AUTH" -> "1" [] name = "EPIC-2-PLAT" -> "2" [] OTHER -> ""

\* the remote store numbers the issues of the project
KeyStr(n) == "ARGUS-" \o ToString(n)
RemoteKeys == {KeyStr(n) : n \in 1..(MaxIssues + 1)}

\* Python's  a or b  on strings
Or(a, b) == IF a # "" THEN a ELSE b

\* dict.get(k) (None is ""), and d[k] = v
Get(m, k) == IF k \in DOMAIN m THEN m[k] ELSE ""
Put(m, k, v) == [x \in (DOMAIN m) \cup {k} |-> IF x = k THEN v ELSE m[x]]
EmptyMap == [x \in {} |-> ""]

(***************************************************************************)
(* State.                                                                  *)
(***************************************************************************)
VARIABLES
  docs,           \* the documents: JIRA Key row and reference rows
  hdr,            \* per story: the form of the header id ("full", "short", "none")
  issues,         \* remote store: the issues in creation order
  links,          \* remote store: the links in creation order
  pc,             \* phase of the running script
  pos,            \* position in the phase's loop
  resume,         \* --resume
  epic_map,       \* SyncState.epic_map
  story_map,      \* SyncState.story_map
  task_map,       \* SyncState.task_map
  errors,         \* SyncState.errors
  created_count,  \* SyncState.created_count
  skipped_count,  \* SyncState.skipped_count
  report,         \* what validation listed
  run,            \* runs started
  fails,          \* remote calls that failed
  crashes,        \* interruptions
  all_data,       \* what collect_epic_data read when the run started
  start,          \* the remote store and the failure count when the run started
  mapping,        \* jira-post-import-fix.py: the ReferenceMapping of the run
  result,         \* jira-post-import-fix.py: the FixResult of the run
  state_file,     \* jira-sync-comprehensive.py: the SyncState file
  call            \* the call in progress in a client's transport wrapper

vars == <<docs, hdr, issues, links, pc, pos, resume, epic_map, story_map, task_map,
          errors, created_count, skipped_count, report, run, fails, crashes,
          all_data, start, mapping, result, state_file, call>>

\* what the other two scripts hold, and the call followed attempt by attempt;
\* a step of jira-sync-all.py leaves them alone
otherScripts == <<mapping, result, state_file, call>>

\* what the scripts and the store hold; an attempt of a call leaves it alone
scriptState == <<docs, hdr, issues, links, pc, pos, resume, epic_map, story_map, task_map,
                 errors, created_count, skipped_count, report, run, fails, crashes,
                 all_data, start, mapping, result, state_file>>

(***************************************************************************)
(* Documents.  A reference row  | <label> | <refs> |  is the list of its   *)
(* comma-separated, stripped tokens ([p.strip() for p in refs.split(",")]) *)
(* and whether its text already is  ", ".join(tokens) + " "  (the spacing  *)
(* the resolvers write).                                                   *)
(***************************************************************************)
FieldsOf(e) == IF e \in Tasks THEN {"Requires", "Unlocks"} ELSE {"Depends On", "Blocks"}

Field(toks, canon) == [toks |-> toks, canon |-> canon]

\* extract_jira_key: the key in the JIRA Key row, "" when the row is blank
extract_jira_key(content) == content.key

\* update_jira_key_in_file: rewrite the JIRA Key row
update_jira_key_in_file(d, e, key) == [d EXCEPT ![e].key = key]

(***************************************************************************)
(* jira-sync-all.py: collect_epic_data.                                    *)
(***************************************************************************)
\* id_match = re.search(r'^#\s+([A-Z]+-\d+-\d+[a-z]?):', ...): three-part ids only
StoryId(s) == IF hdr[s] = "full" THEN Id3(s) ELSE StoryDir(s)
StoryNum(s) == IF hdr[s] = "full" THEN LastDashPart(Id3(s)) ELSE ""
\* a task header is the story's header id followed by -T<n>
TaskId(t) == IF hdr[StoryOf(t)] = "full" THEN Id3(StoryOf(t)) \o "-T" \o TaskNo(t) ELSE TaskStem(t)
\* task["id"].split("-T")[-1] if "-T" in task["id"] else ""
TNum(t) == IF hdr[StoryOf(t)] = "full" THEN TaskNo(t) ELSE ""

\* the loops of main over all_data, flattened: per epic the README, the stories,
\* the tasks (create_jira_issues); per epic the stories, the tasks (links)
CreateOrder == <<"A", "A1", "A2", "A1T1", "A1T2", "B", "B1", "B1T1">>
LinkOrder == <<"A1", "A2", "A1T1", "A1T2", "B1", "B1T1">>

(***************************************************************************)
(* Remote store.                                                           *)
(***************************************************************************)
Issue(e, parent, body) ==
  [kind |-> Kind(e), title |-> Title(e), by |-> e, parent |-> parent, body |-> body]

\* JiraClient.search_issue: the issues of that type whose summary equals the title
SearchMatches(e) ==
  {KeyStr(i) : i \in {j \in 1..Len(issues) :
                        issues[j].title = Title(e) /\ issues[j].kind = Kind(e)}}

\* what  jira_key or (search_issue(...) if resume else None)  can evaluate to: the
\* search is made only for a blank key under --resume; it returns a match, or
\* None when nothing matches or the request fails
ExistingChoices(e) ==
  IF all_data[e].key # "" THEN {all_data[e].key}
  ELSE IF ~resume THEN {""}
  ELSE IF SearchMatches(e) = {} THEN {""}
  ELSE SearchMatches(e) \cup (IF fails < MaxFails THEN {""} ELSE {})

SearchFailed(e, existing) ==
  all_data[e].key = "" /\ resume /\ SearchMatches(e) # {} /\ existing = ""

\* JiraClient.update_issue(key, {"description": ...}) on the remote store
SetBody(iss, key, body) ==
  [i \in 1..Len(iss) |-> IF KeyStr(i) = key THEN [iss[i] EXCEPT !.body = body] ELSE iss[i]]

(***************************************************************************)
(* In-memory state of a run (SyncState of jira-sync-all.py).               *)
(***************************************************************************)
\* a SyncState whose counters and error list are carried from run to run
CarriedMemory ==
  /\ epic_map' = EmptyMap
  /\ story_map' = EmptyMap
  /\ task_map' = EmptyMap
  /\ report' = <<>>
  /\ UNCHANGED <<errors, created_count, skipped_count>>

FreshMemory ==
  /\ epic_map' = EmptyMap
  /\ story_map' = EmptyMap
  /\ task_map' = EmptyMap
  /\ errors' = <<>>
  /\ created_count' = 0
  /\ skipped_count' = 0
  /\ report' = <<>>

KeepMemory == UNCHANGED <<epic_map, story_map, task_map, errors, created_count, skipped_count, report>>

\* a main that takes the epics one after the other through its phases: the
\* phase is left at the last entity of an epic
AdvanceByEpic(order, nextPc) ==
  IF pos < Len(order) /\ EpicOf(order[pos + 1]) = EpicOf(order[pos])
  THEN pos' = pos + 1 /\ pc' = pc
  ELSE pos' = 1 /\ pc' = nextPc

\* the loop goes to its next element, or the script to its next phase
Advance(order, nextPc) ==
  IF pos < Len(order) THEN pos' = pos + 1 /\ pc' = pc ELSE pos' = 1 /\ pc' = nextPc

\* state.story_map entries of one story (id, num, S+num)
PutStory(m, s, key) ==
  Put(Put(Put(m, StoryId(s), key), StoryNum(s), key), "S" \o StoryNum(s), key)

\* state.task_map entries of one task (id, and (story_dir_name, T<n>) when the id has -T)
PutTask(m, t, key) ==
  LET m1 == Put(m, <<TaskId(t)>>, key)
  IN IF TNum(t) # "" THEN Put(m1, <<StoryDir(StoryOf(t)), "T" \o TNum(t)>>, key) ELSE m1

(***************************************************************************)
(* jira-sync-all.py: main, Phase 1 (collect) and Phase 2                   *)
(* (create_jira_issues).  One step per entity of the loops.                *)
(***************************************************************************)
StartRun(r) ==
  /\ UNCHANGED otherScripts
  /\ pc \in {"idle", "done", "fixed", "aborted", "dry"}
  /\ run < MaxRuns
  /\ run' = run + 1
  /\ resume' = r
  /\ pc' = "create"
  /\ pos' = 1
  /\ FreshMemory
  /\ all_data' = docs
  /\ start' = [issues |-> Len(issues), links |-> Len(links), fails |-> fails,
               clean |-> (pc = "done" /\ errors = <<>> /\ fails = start.fails)]
  /\ UNCHANGED <<docs, hdr, issues, links, fails, crashes>>

AfterSearch(e, existing) == IF SearchFailed(e, existing) THEN fails + 1 ELSE fails

CreateEpic ==
  /\ UNCHANGED otherScripts
  /\ pc = "create"
  /\ CreateOrder[pos] \in Epics
  /\ LET e == CreateOrder[pos]
         id == EpicDir(e)
     IN \E existing \in ExistingChoices(e), ok \in BOOLEAN :
          /\ IF existing # ""
             THEN /\ ok
                  /\ epic_map' = Put(epic_map, id, existing)
                  /\ skipped_count' = skipped_count + 1
                  /\ fails' = fails
                  /\ UNCHANGED <<docs, issues, errors, created_count>>
             ELSE IF ok
             THEN /\ Len(issues) < MaxIssues
                  /\ issues' = Append(issues, Issue(e, "", all_data[e]))
                  /\ epic_map' = Put(epic_map, id, KeyStr(Len(issues) + 1))
                  /\ created_count' = created_count + 1
                  /\ docs' = update_jira_key_in_file(docs, e, KeyStr(Len(issues) + 1))
                  /\ fails' = AfterSearch(e, existing)
                  /\ UNCHANGED <<errors, skipped_count>>
             ELSE /\ AfterSearch(e, existing) < MaxFails
                  /\ errors' = Append(errors, <<"Failed to create epic", id>>)
                  /\ fails' = AfterSearch(e, existing) + 1
                  /\ UNCHANGED <<docs, issues, epic_map, created_count, skipped_count>>
          /\ Advance(CreateOrder, "links")
  /\ UNCHANGED <<hdr, links, resume, story_map, task_map, report, run, crashes, all_data, start>>

CreateStory ==
  /\ UNCHANGED otherScripts
  /\ pc = "create"
  /\ CreateOrder[pos] \in Stories
  /\ LET s == CreateOrder[pos]
         epic_key == Get(epic_map, EpicDir(EpicOf(s)))
     IN \E existing \in ExistingChoices(s), ok \in BOOLEAN :
          /\ IF existing # ""
             THEN /\ ok
                  /\ story_map' = PutStory(story_map, s, existing)
                  /\ skipped_count' = skipped_count + 1
                  /\ fails' = fails
                  /\ UNCHANGED <<docs, issues, errors, created_count>>
             ELSE IF ok
             THEN /\ Len(issues) < MaxIssues
                  \* create_issue("Story", ...), then set_epic_link when epic_key
                  /\ issues' = Append(issues, Issue(s, epic_key, all_data[s]))
                  /\ story_map' = PutStory(story_map, s, KeyStr(Len(issues) + 1))
                  /\ created_count' = created_count + 1
                  /\ docs' = update_jira_key_in_file(docs, s, KeyStr(Len(issues) + 1))
                  /\ fails' = AfterSearch(s, existing)
                  /\ UNCHANGED <<errors, skipped_count>>
             ELSE /\ AfterSearch(s, existing) < MaxFails
                  /\ errors' = Append(errors, <<"Failed to create story", StoryId(s)>>)
                  /\ fails' = AfterSearch(s, existing) + 1
                  /\ UNCHANGED <<docs, issues, story_map, created_count, skipped_count>>
          /\ Advance(CreateOrder, "links")
  /\ UNCHANGED <<hdr, links, resume, epic_map, task_map, report, run, crashes, all_data, start>>

CreateTask ==
  /\ UNCHANGED otherScripts
  /\ pc = "create"
  /\ CreateOrder[pos] \in Tasks
  /\ LET t == CreateOrder[pos]
         story_key == Get(story_map, StoryId(StoryOf(t)))
     IN \E existing \in ExistingChoices(t), ok \in BOOLEAN :
          /\ IF existing # ""
             THEN /\ ok
                  /\ task_map' = PutTask(task_map, t, existing)
                  /\ skipped_count' = skipped_count + 1
                  /\ fails' = fails
                  /\ UNCHANGED <<docs, issues, errors, created_count>>
             ELSE IF story_key = ""
             THEN /\ ok
                  /\ errors' = Append(errors, <<"Task has no parent story", TaskId(t)>>)
                  /\ fails' = AfterSearch(t, existing)
                  /\ UNCHANGED <<docs, issues, task_map, created_count, skipped_count>>
             ELSE IF ok
             THEN /\ Len(issues) < MaxIssues
                  /\ issues' = Append(issues, Issue(t, story_key, all_data[t]))
                  /\ task_map' = PutTask(task_map, t, KeyStr(Len(issues) + 1))
                  /\ created_count' = created_count + 1
                  /\ docs' = update_jira_key_in_file(docs, t, KeyStr(Len(issues) + 1))
                  /\ fails' = AfterSearch(t, existing)
                  /\ UNCHANGED <<errors, skipped_count>>
             ELSE /\ AfterSearch(t, existing) < MaxFails
                  /\ errors' = Append(errors, <<"Failed to create task", TaskId(t)>>)
                  /\ fails' = AfterSearch(t, existing) + 1
                  /\ UNCHANGED <<docs, issues, task_map, created_count, skipped_count>>
          /\ Advance(CreateOrder, "links")
  /\ UNCHANGED <<hdr, links, resume, epic_map, story_map, report, run, crashes, all_data, start>>

\* the process is killed between two steps of the create phase's loop, or right
\* after the remote store applied a create call and before its result was recorded
Crash ==
  /\ UNCHANGED otherScripts
  /\ pc \in {"create", "links", "convert", "update", "validate", "fix", "fixval",
            "c_epics", "c_stories", "c_tasks", "c_links"}
  /\ crashes < MaxCrashes
  /\ crashes' = crashes + 1
  /\ pc' = "idle"
  /\ pos' = 1
  /\ FreshMemory
  /\ UNCHANGED <<docs, hdr, issues, links, resume, run, fails, all_data, start>>

CrashAfterCreate ==
  /\ UNCHANGED otherScripts
  /\ pc = "create"
  /\ crashes < MaxCrashes
  /\ Len(issues) < MaxIssues
  /\ LET e == CreateOrder[pos]
         parent == CASE e \in Epics -> ""
                     [] e \in Stories -> Get(epic_map, EpicDir(EpicOf(e)))
                     [] OTHER -> Get(story_map, StoryId(StoryOf(e)))
     IN /\ "" \in ExistingChoices(e)
        /\ e \in Tasks => parent # ""
        /\ issues' = Append(issues, Issue(e, parent, all_data[e]))
        /\ fails' = AfterSearch(e, "")
  /\ crashes' = crashes + 1
  /\ pc' = "idle"
  /\ pos' = 1
  /\ FreshMemory
  /\ UNCHANGED <<docs, hdr, links, resume, run, all_data, start>>

(***************************************************************************)
(* jira-sync-all.py: Phase 3 (create_dependency_links).                    *)
(***************************************************************************)
\* story["blocks"] and story["blocks"] not in ["-", "none"];
\* refs.strip() in ["-", "none", ""]
IsNoneSyncAll(f) == Len(f.toks) = 1 /\ f.toks[1] \in {"-", "none", ""}

\* state.story_map.get(ref) or state.story_map.get(f"S{ref}")
LookupStoryRef(sm, p) == Or(Get(sm, p), Get(sm, "S" \o p))
\* state.task_map.get((task["story_dir_name"], ref))
LookupTaskRef(tm, t, p) == Get(tm, <<StoryDir(StoryOf(t)), p>>)

\* the create_link calls of one entity: a call per token whose target is found
\* and is not the entity's own key
LinkCalls(from, targets) ==
  LET hit == SelectSeq(targets, LAMBDA k : k # "" /\ k # from)
  IN [i \in 1..Len(hit) |-> <<from, hit[i]>>]

\* the calls the store applied when create_link returned False for the k-th
\* call of the entity (k = 0: for none): a failed call makes no link, and the
\* loop goes on with the next token
LinksMade(calls, k) ==
  [i \in 1..(IF k = 0 THEN Len(calls) ELSE Len(calls) - 1) |->
     IF k = 0 \/ i < k THEN calls[i] ELSE calls[i + 1]]

LinkStory ==
  /\ UNCHANGED otherScripts
  /\ pc = "links"
  /\ LinkOrder[pos] \in Stories
  /\ LET s == LinkOrder[pos]
         story_key == Get(story_map, StoryId(s))
         blocks == all_data[s].refs["Blocks"]
         calls == IF story_key = "" \/ IsNoneSyncAll(blocks) THEN <<>>
                  ELSE LinkCalls(story_key,
                         [i \in 1..Len(blocks.toks) |-> LookupStoryRef(story_map, blocks.toks[i])])
     IN \E k \in 0..Len(calls) :
          /\ k # 0 => fails < MaxFails
          /\ links' = links \o LinksMade(calls, k)
          /\ fails' = IF k = 0 THEN fails ELSE fails + 1
  /\ Advance(LinkOrder, "convert")
  /\ KeepMemory
  /\ UNCHANGED <<docs, hdr, issues, resume, run, crashes, all_data, start>>

LinkTask ==
  /\ UNCHANGED otherScripts
  /\ pc = "links"
  /\ LinkOrder[pos] \in Tasks
  /\ LET t == LinkOrder[pos]
         task_key == Get(task_map, <<TaskId(t)>>)
         unlocks == all_data[t].refs["Unlocks"]
         calls == IF task_key = "" \/ IsNoneSyncAll(unlocks) THEN <<>>
                  ELSE LinkCalls(task_key,
                         [i \in 1..Len(unlocks.toks) |-> LookupTaskRef(task_map, t, unlocks.toks[i])])
     IN \E k \in 0..Len(calls) :
          /\ k # 0 => fails < MaxFails
          /\ links' = links \o LinksMade(calls, k)
          /\ fails' = IF k = 0 THEN fails ELSE fails + 1
  /\ Advance(LinkOrder, "convert")
  /\ KeepMemory
  /\ UNCHANGED <<docs, hdr, issues, resume, run, crashes, all_data, start>>

(***************************************************************************)
(* jira-sync-all.py: Phase 4 (convert_refs_to_jira_keys, convert_epic_refs). *)
(***************************************************************************)
\* str.lower() on the tokens of the corpus
Lower(tok) == CASE tok = "None" -> "none" [] tok = "N/A" -> "n/a" [] OTHER -> tok

\* a resolver that keeps only what the table resolves: converted.append(key)
convert_story_refs_strict(sm, f) ==
  IF IsNoneSyncAll(f) THEN f
  ELSE Field([i \in 1..Len(f.toks) |-> LookupStoryRef(sm, f.toks[i])], TRUE)

\* convert_story_refs (the closure of convert_refs_to_jira_keys): a row that is
\* not a none sentinel is written back as ", ".join(converted) + " "
convert_story_refs(sm, f) ==
  IF IsNoneSyncAll(f) THEN f
  ELSE Field([i \in 1..Len(f.toks) |->
                LET key == LookupStoryRef(sm, f.toks[i])
                IN IF key # "" THEN key ELSE f.toks[i]], TRUE)

convert_task_refs(tm, t, f) ==
  IF IsNoneSyncAll(f) THEN f
  ELSE Field([i \in 1..Len(f.toks) |->
                LET key == LookupTaskRef(tm, t, f.toks[i])
                IN IF key # "" THEN key ELSE f.toks[i]], TRUE)

\* build_epic_jira_map: every README with a key, under the directory name and
\* under the name without its EPIC- prefix
build_epic_jira_map(d) ==
  LET have == {ep \in Epics : extract_jira_key(d[ep]) # ""}
      names == {EpicDir(ep) : ep \in have} \cup {EpicTail(EpicDir(ep)) : ep \in have}
  IN [n \in names |->
        extract_jira_key(d[CHOOSE ep \in have : n \in {EpicDir(ep), EpicTail(EpicDir(ep))}])]

\* convert_refs (the closure of convert_epic_refs)
convert_epic_ref_row(m, f) ==
  IF Len(f.toks) = 1 /\ Lower(f.toks[1]) \in {"-", "none", ""} THEN f
  ELSE Field([i \in 1..Len(f.toks) |->
                LET key == Or(Get(m, f.toks[i]), Get(m, "EPIC-" \o f.toks[i]))
                IN IF key # "" THEN key ELSE f.toks[i]], TRUE)

\* the documents after convert_refs_to_jira_keys(data, state) and
\* convert_epic_refs(data, epic_map) for the epic ep
ConvertedDocs(d, ep, sm, tm) ==
  [e \in Entities |->
     IF EpicOf(e) # ep THEN d[e]
     ELSE [d[e] EXCEPT !.refs =
             [fn \in FieldsOf(e) |->
                IF e \in Stories THEN convert_story_refs(sm, d[e].refs[fn])
                ELSE IF e \in Tasks THEN convert_task_refs(tm, e, d[e].refs[fn])
                ELSE convert_epic_ref_row(build_epic_jira_map(d), d[e].refs[fn])]]]

ConvertEpic ==
  /\ UNCHANGED otherScripts
  /\ pc = "convert"
  /\ docs' = ConvertedDocs(docs, EpicOrder[pos], story_map, task_map)
  /\ Advance(EpicOrder, "update")
  /\ KeepMemory
  /\ UNCHANGED <<hdr, issues, links, resume, run, fails, crashes, all_data, start>>

(***************************************************************************)
(* jira-sync-all.py: Phase 5 (update_jira_descriptions) and Phase 6        *)
(* (validate_sync).                                                        *)
(***************************************************************************)
\* the key the run holds for an entity: state.epic_map.get(id),
\* state.story_map.get(id), state.task_map.get(id)
KeyInState(e) ==
  CASE e \in Epics -> Get(epic_map, EpicDir(e))
    [] e \in Stories -> Get(story_map, StoryId(e))
    [] OTHER -> Get(task_map, <<TaskId(e)>>)

EntitiesOfEpic(ep) == <<ep>> \o StoriesOf(ep) \o TasksOf(ep)

RECURSIVE UpdateDescriptions(_, _)
UpdateDescriptions(iss, ents) ==
  IF ents = <<>> THEN iss
  ELSE LET e == Head(ents)
           key == KeyInState(e)
       IN UpdateDescriptions(IF key # "" THEN SetBody(iss, key, docs[e]) ELSE iss, Tail(ents))

UpdateEpic ==
  /\ UNCHANGED otherScripts
  /\ pc = "update"
  /\ issues' = UpdateDescriptions(issues, EntitiesOfEpic(EpicOrder[pos]))
  /\ Advance(EpicOrder, "validate")
  /\ KeepMemory
  /\ UNCHANGED <<docs, hdr, links, resume, run, fails, crashes, all_data, start>>

\* the ids the corpus can hold
StoryFullIds == {Id3(s) : s \in Stories} \cup {Id2(s) : s \in Stories}
TaskFullIds == {Id3(StoryOf(t)) \o "-T" \o TaskNo(t) : t \in Tasks}
                 \cup {Id2(StoryOf(t)) \o "-T" \o TaskNo(t) : t \in Tasks}

\* re.match(r'[A-Z]+-\d+', ref): a prefix of the token has the shape of a key
MatchesKeyPrefix(tok) ==
  tok \in RemoteKeys \cup StoryFullIds \cup TaskFullIds \cup {EpicDir(ep) : ep \in Epics}

\* validate_sync over all_data: entities without a key in the run's state, and
\* the tokens of the reference rows that do not start like a key
ValidateSync ==
  {<<"has no JIRA key", e>> : e \in {x \in Entities : KeyInState(x) = ""}}
    \cup
  UNION {UNION {{<<"has non-JIRA ref", e, fn, docs[e].refs[fn].toks[i]>> :
                   i \in {j \in 1..Len(docs[e].refs[fn].toks) :
                            /\ ~(Len(docs[e].refs[fn].toks) = 1
                                   /\ docs[e].refs[fn].toks[1] \in {"", "-", "none"})
                            /\ docs[e].refs[fn].toks[j] # ""
                            /\ ~MatchesKeyPrefix(docs[e].refs[fn].toks[j])}} :
                fn \in FieldsOf(e)} : e \in Stories \cup Tasks}

Validate ==
  /\ UNCHANGED otherScripts
  /\ pc = "validate"
  /\ report' = ValidateSync
  /\ pc' = "done"
  /\ pos' = 1
  /\ UNCHANGED <<docs, hdr, issues, links, resume, epic_map, story_map, task_map, errors,
                 created_count, skipped_count, run, fails, crashes, all_data, start>>

(***************************************************************************)
(* jira-sync-all.py: what ends main other than its last line.  The first   *)
(* create_issue call of a process looks the issue types up, outside any    *)
(* try block; with --dry-run or --validate-only main leaves after Phase 1, *)
(* and Phase 0 (--reset) and Phase 0.5 (--clean-jira) come before that.    *)
(***************************************************************************)
\* no create_issue call was made yet by this process: self._issue_types is None
NoCreateCallYet ==
  /\ created_count = 0
  /\ \A n \in 1..Len(errors) :
        errors[n][1] \notin {"Failed to create epic", "Failed to create story",
                             "Failed to create task"}

\* the remote store fails the issue-type lookup of the first create_issue call:
\* the exception leaves create_issue, create_jira_issues and main
LookupAbort ==
  /\ UNCHANGED otherScripts
  /\ pc = "create"
  /\ NoCreateCallYet
  /\ LET e == CreateOrder[pos]
         parent == CASE e \in Epics -> ""
                     [] e \in Stories -> Get(epic_map, EpicDir(EpicOf(e)))
                     [] OTHER -> Get(story_map, StoryId(StoryOf(e)))
     IN /\ "" \in ExistingChoices(e)
        /\ e \in Tasks => parent # ""
        /\ AfterSearch(e, "") < MaxFails
        /\ fails' = AfterSearch(e, "") + 1
  /\ pc' = "aborted"
  /\ pos' = 1
  /\ FreshMemory
  /\ UNCHANGED <<docs, hdr, issues, links, resume, run, crashes, all_data, start>>

\* reset_references on every epic directory: the rows of the tasks whose header
\* has a three-part id are set to the neighbouring T<n> (none at the ends) and
\* their key is cleared; the keys of the stories and of the README are cleared
reset_references(d) ==
  [e \in Entities |->
     IF e \notin Tasks THEN [d[e] EXCEPT !.key = ""]
     ELSE IF hdr[StoryOf(e)] # "full" THEN d[e]
     ELSE LET task_int == IF TaskNo(e) = "1" THEN 1 ELSE 2
              max_task == Len(TasksOfStory(StoryOf(e)))
          IN [key |-> "",
              refs |-> [fn \in FieldsOf(e) |->
                          IF fn = "Requires"
                          THEN IF task_int = 1 THEN Field(<<"none">>, TRUE)
                               ELSE Field(<<"T" \o ToString(task_int - 1)>>, TRUE)
                          ELSE IF task_int = max_task THEN Field(<<"none">>, TRUE)
                               ELSE Field(<<"T" \o ToString(task_int + 1)>>, TRUE)]]]

\* an issue the store deleted: no search finds it any more
Deleted(iss) == [iss EXCEPT !.kind = "Deleted", !.title = ""]

\* clean_jira_issues for one README title: the epics of that title, the stories
\* whose parent they are, and with each story its subtasks
clean_jira_issues(iss, epic_title) ==
  LET epic_keys == {i \in 1..Len(iss) : iss[i].kind = "Epic" /\ iss[i].title = epic_title}
      story_keys == {i \in 1..Len(iss) : /\ iss[i].kind = "Story"
                                         /\ \E k \in epic_keys : iss[i].parent = KeyStr(k)}
      subtasks == {i \in 1..Len(iss) : /\ iss[i].kind = "Subtask"
                                       /\ \E k \in story_keys : iss[i].parent = KeyStr(k)}
  IN [i \in 1..Len(iss) |->
        IF i \in epic_keys \cup story_keys \cup subtasks THEN Deleted(iss[i]) ELSE iss[i]]

\* main with --dry-run (or --validate-only), and with or without --reset and
\* --clean-jira: Phase 0, Phase 0.5, Phase 1, sys.exit(0)
DryRun(reset, clean_jira) ==
  /\ UNCHANGED otherScripts
  /\ pc \in {"idle", "done", "aborted", "dry"}
  /\ run < MaxRuns
  /\ run' = run + 1
  /\ docs' = IF reset THEN reset_references(docs) ELSE docs
  /\ issues' = IF clean_jira
                THEN clean_jira_issues(clean_jira_issues(issues, Title("A")), Title("B"))
                ELSE issues
  /\ all_data' = docs'
  /\ pc' = "dry"
  /\ pos' = 1
  /\ FreshMemory
  /\ UNCHANGED <<hdr, links, resume, fails, crashes, start>>

(***************************************************************************)
(* jira-post-import-fix.py: build_complete_mapping.                        *)
(***************************************************************************)
\* re.match(r'^[A-Z]+-\d+$', ref.strip()): remote keys, and the two-part ids
is_jira_key(ref) == ref \in RemoteKeys \cup {Id2(s) : s \in Stories}

\* ref.lower() in ["", "-", "none", "n/a"]
IsNoneFix(ref) == Lower(ref) \in {"", "-", "none", "n/a"}

\* ReferenceMapping()
EmptyMapping ==
  [epics |-> EmptyMap, stories |-> EmptyMap, stories_by_epic |-> EmptyMap,
   tasks |-> EmptyMap, task_tuples |-> EmptyMap]

\* the id of a story header, r'^#\s+([A-Z]+-\d+(?:-\d+)?[a-z]?):', "" without one
HeaderId(s) ==
  CASE hdr[s] = "full" -> Id3(s)
    [] hdr[s] = "short" -> Id2(s)
    [] OTHER -> ""

\* mapping.epics of one README: the directory name, name[5:] and its first part
MapEpic(m, ep, d) ==
  LET jira_key == extract_jira_key(d[ep])
      name == EpicDir(ep)
  IN IF jira_key = "" THEN m
     ELSE [m EXCEPT !.epics =
             Put(Put(Put(@, name, jira_key), EpicTail(name), jira_key),
                 EpicShort(name), jira_key)]

\* short forms registered under the story's id instead of its key
ShortFormEntriesById(sbe, epic_name, num, story_id, jira_key) ==
  Put(Put(sbe, <<epic_name, num>>, story_id), <<epic_name, "S" \o num>>, story_id)

\* mapping.stories_by_epic[(epic_name, num)] and [(epic_name, "S" + num)]
ShortFormEntries(sbe, epic_name, num, story_id, jira_key) ==
  Put(Put(sbe, <<epic_name, num>>, jira_key), <<epic_name, "S" \o num>>, jira_key)

\* the entries of one story: its directory name always, the number of the
\* directory and the header id when the story has a key
MapStoryDir(m, epic_name, dir, story_id, jira_key) ==
  LET m1 == [m EXCEPT !.stories = Put(@, dir, jira_key)]
      m2 == IF DirNum(dir) # "" /\ jira_key # ""
            THEN [m1 EXCEPT !.stories_by_epic =
                    ShortFormEntries(@, epic_name, LStripZeros(DirNum(dir)), dir, jira_key)]
            ELSE m1
  IN IF story_id # "" /\ jira_key # ""
     THEN [m2 EXCEPT !.stories = Put(@, story_id, jira_key),
                     !.stories_by_epic =
                        ShortFormEntries(@, epic_name, LStripZeros(LastDashPart(story_id)),
                                         story_id, jira_key)]
     ELSE m2

\* the entries of story s of the corpus, read from its file in d
MapStory(m, s, d) ==
  MapStoryDir(m, EpicDir(EpicOf(s)), StoryDir(s), HeaderId(s), extract_jira_key(d[s]))

\* re.match(r'task-(\d+)', task_file.name)
StemNum(t) == IF t = "A1T2" THEN "02" ELSE "01"

\* the entries of one task that has a key
MapTask(m, t, d) ==
  LET task_jira_key == extract_jira_key(d[t])
      dir == StoryDir(StoryOf(t))
      m1 == [m EXCEPT !.task_tuples =
               Put(@, <<dir, "T" \o LStripZeros(StemNum(t))>>, task_jira_key)]
  IN IF task_jira_key = "" THEN m
     ELSE IF HeaderId(StoryOf(t)) = "" THEN m1
     ELSE [m1 EXCEPT !.tasks = Put(@, HeaderId(StoryOf(t)) \o "-T" \o TaskNo(t), task_jira_key),
                     !.task_tuples = Put(@, <<dir, "T" \o TaskNo(t)>>, task_jira_key)]

\* the loops of build_complete_mapping and of Phase 3: per epic the README, then
\* per story directory the story and its tasks
FixOrder == <<"A", "A1", "A1T1", "A1T2", "A2", "B", "B1", "B1T1">>

RECURSIVE MapAll(_, _, _)
MapAll(m, ents, d) ==
  IF ents = <<>> THEN m
  ELSE LET e == Head(ents)
       IN MapAll(IF e \in Epics THEN MapEpic(m, e, d)
                 ELSE IF e \in Stories THEN MapStory(m, e, d)
                 ELSE MapTask(m, e, d),
                 Tail(ents), d)

build_complete_mapping(d) == MapAll(EmptyMapping, FixOrder, d)

(***************************************************************************)
(* jira-post-import-fix.py: the story loop of build_complete_mapping over  *)
(* an epic EPIC-1-AUTH that has a letter-suffixed story next to story 2:   *)
(* stories/01-setup, stories/02-login, stories/02a-oauth.  One step per    *)
(* story directory; what the story file holds (a JIRA Key row or none, a   *)
(* three-part, two-part or no header id) is chosen in the step.            *)
(***************************************************************************)
\* sorted(stories_dir.iterdir()): "-" sorts before "a"
SuffixedDirs == <<"01-setup", "02-login", "02a-oauth">>

\* the header id of the story file of a directory, in the form it is written
DirHeaderId(dir, form) ==
  CASE form = "full" ->
         (CASE dir = "01-setup" -> "AUTH-001-1" [] dir = "02-login" -> "AUTH-001-2"
            [] OTHER -> "AUTH-001-2a")
    [] form = "short" ->
         (CASE dir = "01-setup" -> "AUTH-001" [] dir = "02-login" -> "AUTH-002"
            [] OTHER -> "AUTH-002a")
    [] OTHER -> ""

MapTreeStart ==
  /\ pc \in {"idle", "mapped", "rowfixed"}
  /\ pc' = "map"
  /\ pos' = 1
  /\ mapping' = EmptyMapping
  /\ UNCHANGED <<docs, hdr, issues, links, resume, run, fails, crashes, all_data, start,
                 result, state_file, call>>
  /\ KeepMemory

MapTreeStory ==
  /\ pc = "map"
  /\ \E has_key \in BOOLEAN, form \in {"full", "short", "none"} :
       mapping' = MapStoryDir(mapping, "EPIC-1-AUTH", SuffixedDirs[pos],
                              DirHeaderId(SuffixedDirs[pos], form),
                              IF has_key THEN KeyStr(pos) ELSE "")
  /\ Advance(SuffixedDirs, "mapped")
  /\ UNCHANGED <<docs, hdr, issues, links, resume, run, fails, crashes, all_data, start,
                 result, state_file, call>>
  /\ KeepMemory

(***************************************************************************)
(* jira-post-import-fix.py: convert_reference, fix_references_in_content.  *)
(***************************************************************************)
\* ref.startswith("S") and ref[1:].isalnum(), and ref[1:]
StartsWithS(ref) == ref \in {"S1", "S2"}
AfterS(ref) == CASE ref = "S1" -> "1" [] ref = "S2" -> "2" [] OTHER -> ""
\* ref.isdigit() or ref[0].isdigit()
StartsWithDigit(ref) == ref \in {"1", "2", "3", "1-AUTH", "2-PLAT", "01-setup", "02-login"}

Converted(ref) == [ref |-> ref, conv |-> TRUE]
NotConverted(ref) == [ref |-> ref, conv |-> FALSE]

\* the context of a file: fix_epic passes none, fix_story the epic name,
\* fix_task the epic name and the story directory
Context(e) ==
  [epic_name |-> IF e \in Epics THEN "" ELSE EpicDir(EpicOf(e)),
   story_dir_name |-> IF e \in Tasks THEN StoryDir(StoryOf(e)) ELSE ""]

\* the per-epic lookups of convert_reference
ScopedStory(ref, m, epic_name) ==
  LET sbe == m.stories_by_epic
  IN IF epic_name = "" THEN NotConverted(ref)
     ELSE IF StartsWithS(ref) /\ <<epic_name, ref>> \in DOMAIN sbe
     THEN Converted(sbe[<<epic_name, ref>>])
     ELSE IF StartsWithS(ref) /\ <<epic_name, AfterS(ref)>> \in DOMAIN sbe
     THEN Converted(sbe[<<epic_name, AfterS(ref)>>])
     ELSE IF StartsWithDigit(ref) /\ <<epic_name, ref>> \in DOMAIN sbe
     THEN Converted(sbe[<<epic_name, ref>>])
     ELSE IF StartsWithDigit(ref) /\ <<epic_name, "S" \o ref>> \in DOMAIN sbe
     THEN Converted(sbe[<<epic_name, "S" \o ref>>])
     ELSE NotConverted(ref)

convert_reference(ref, m, context) ==
  IF is_jira_key(ref) THEN NotConverted(ref)
  ELSE IF IsNoneFix(ref) THEN NotConverted(ref)
  ELSE IF ref \in DOMAIN m.epics THEN Converted(m.epics[ref])
  ELSE IF EpicTail(ref) # "" /\ EpicTail(ref) \in DOMAIN m.epics
  THEN Converted(m.epics[EpicTail(ref)])
  ELSE IF ref \in DOMAIN m.stories THEN Converted(m.stories[ref])
  ELSE IF ScopedStory(ref, m, context.epic_name).conv
  THEN ScopedStory(ref, m, context.epic_name)
  ELSE IF ref \in DOMAIN m.tasks THEN Converted(m.tasks[ref])
  ELSE IF context.story_dir_name # ""
          /\ <<context.story_dir_name, ref>> \in DOMAIN m.task_tuples
  THEN Converted(m.task_tuples[<<context.story_dir_name, ref>>])
  ELSE NotConverted(ref)

\* refs_str.lower() in ["", "-", "none", "n/a"]
RowIsNoneFix(f) == Len(f.toks) = 1 /\ IsNoneFix(f.toks[1])

\* replace_refs (the closure of fix_references_in_content) on one row
replace_refs(m, context, f) ==
  IF RowIsNoneFix(f) THEN f
  ELSE Field([i \in 1..Len(f.toks) |-> convert_reference(f.toks[i], m, context).ref], TRUE)

\* the tokens replace_refs reports as unresolved
UnresolvedOf(m, context, e, fn, f) ==
  IF RowIsNoneFix(f) THEN <<>>
  ELSE LET c == [i \in 1..Len(f.toks) |-> convert_reference(f.toks[i], m, context)]
           keep == SelectSeq([i \in 1..Len(f.toks) |-> i],
                             LAMBDA i : /\ ~c[i].conv
                                        /\ ~is_jira_key(c[i].ref)
                                        /\ ~IsNoneFix(c[i].ref))
       IN [j \in 1..Len(keep) |-> <<e, fn, f.toks[keep[j]]>>]

\* fix_references_in_content on the reference rows of one file
fix_references_in_content(content, m, context, e) ==
  [content EXCEPT !.refs = [fn \in FieldsOf(e) |-> replace_refs(m, context, content.refs[fn])]]

\* validate_all_refs: the tokens of the rows that are not none and not keys
NonJiraRefs(d) ==
  UNION {UNION {{<<e, fn, d[e].refs[fn].toks[i]>> :
                   i \in {j \in 1..Len(d[e].refs[fn].toks) :
                            /\ ~RowIsNoneFix(d[e].refs[fn])
                            /\ ~is_jira_key(d[e].refs[fn].toks[j])}} :
                fn \in FieldsOf(e)} : e \in Entities}

\* jira-sync-comprehensive.py: SyncState._load without a state file
NewStateFile ==
  [epics |-> EmptyMap, stories |-> EmptyMap, tasks |-> EmptyMap, links_created |-> {}]

(***************************************************************************)
(* jira-post-import-fix.py: main.  Phase 1 builds the mapping, Phase 2     *)
(* validates and stops when nothing is left to fix, Phase 3 fixes file by  *)
(* file, Phase 5 validates again.                                          *)
(***************************************************************************)
\* FixResult()
NewFixResult ==
  [epics_fixed |-> 0, stories_fixed |-> 0, tasks_fixed |-> 0, links_created |-> 0,
   jira_updated |-> 0, unresolved_refs |-> <<>>]

FixStart ==
  /\ pc \in {"idle", "done", "fixed"}
  /\ run < MaxRuns
  /\ run' = run + 1
  /\ mapping' = build_complete_mapping(docs)
  /\ result' = NewFixResult
  /\ pc' = IF NonJiraRefs(docs) = {} THEN "fixed" ELSE "fix"
  /\ pos' = 1
  /\ FreshMemory
  /\ UNCHANGED <<docs, hdr, issues, links, resume, fails, crashes, all_data, start, state_file,
                 call>>

\* field_names of the file, in the order fix_references_in_content takes them
FieldSeq(e) == IF e \in Tasks THEN <<"Requires", "Unlocks">> ELSE <<"Depends On", "Blocks">>

\* fix_epic, fix_story, fix_task: rewrite the file when its content changed,
\* list the unresolved tokens, and push the new body when the file has a key
FixFile(e, counter) ==
  LET content == docs[e]
      fixed == fix_references_in_content(content, mapping, Context(e), e)
      jira_key == extract_jira_key(content)
      unresolved ==
        UnresolvedOf(mapping, Context(e), e, FieldSeq(e)[1], content.refs[FieldSeq(e)[1]])
          \o UnresolvedOf(mapping, Context(e), e, FieldSeq(e)[2], content.refs[FieldSeq(e)[2]])
      push == jira_key # "" /\ fixed # content
  IN /\ docs' = [docs EXCEPT ![e] = fixed]
     \* update_issue: applied by the store, failed (False), or left unanswered
     \* by the store while request ran out of attempts and returned None (True)
     /\ \E outcome \in {"applied", "failed", "unanswered"} :
          /\ outcome # "applied" => (push /\ fails < MaxFails)
          /\ issues' = IF push /\ outcome = "applied" THEN SetBody(issues, jira_key, fixed)
                       ELSE issues
          /\ fails' = IF outcome = "applied" THEN fails ELSE fails + 1
          /\ result' = [result EXCEPT
                          ![counter] = IF fixed # content THEN @ + 1 ELSE @,
                          !.jira_updated = IF push /\ outcome # "failed" THEN @ + 1 ELSE @,
                          !.unresolved_refs = @ \o unresolved]
     /\ Advance(FixOrder, "fixval")
     /\ KeepMemory
     /\ UNCHANGED <<hdr, links, resume, run, crashes, all_data, start, mapping, state_file,
                    call>>

FixEpic ==
  /\ pc = "fix"
  /\ FixOrder[pos] \in Epics
  /\ FixFile(FixOrder[pos], "epics_fixed")

FixStory ==
  /\ pc = "fix"
  /\ FixOrder[pos] \in Stories
  /\ FixFile(FixOrder[pos], "stories_fixed")

FixTask ==
  /\ pc = "fix"
  /\ FixOrder[pos] \in Tasks
  /\ FixFile(FixOrder[pos], "tasks_fixed")

FixValidate ==
  /\ pc = "fixval"
  /\ report' = NonJiraRefs(docs)
  /\ pc' = "fixed"
  /\ pos' = 1
  /\ UNCHANGED <<docs, hdr, issues, links, resume, epic_map, story_map, task_map, errors,
                 created_count, skipped_count, run, fails, crashes, all_data, start,
                 mapping, result, state_file, call>>

(***************************************************************************)
(* jira-post-import-fix.py: fix_story and validate_all_refs on a story     *)
(* file of the epic with the letter-suffixed story, once the mapping of    *)
(* that epic is built: the file of stories/01-setup, whose Blocks row holds *)
(* one header id of a story of the epic, its own included, in the          *)
(* three-part or the two-part form.  With --create-links the run then goes *)
(* through create_missing_links for that file; a behaviour has one such    *)
(* run, its last.                                                          *)
(***************************************************************************)
SuffixedIds ==
  {DirHeaderId(SuffixedDirs[i], form) : i \in 1..Len(SuffixedDirs), form \in {"full", "short"}}

\* validate_all_refs on one row: the tokens appended to non_jira
NonJiraOfRow(f) ==
  IF RowIsNoneFix(f) THEN {}
  ELSE {f.toks[i] : i \in {j \in 1..Len(f.toks) : ~is_jira_key(f.toks[j])}}

MapTreeFixRow ==
  /\ pc = "mapped"
  /\ \E ref \in SuffixedIds :
       LET context == [epic_name |-> "EPIC-1-AUTH", story_dir_name |-> ""]
           original == Field(<<ref>>, FALSE)
           content == replace_refs(mapping, context, original)
       IN /\ result' = [NewFixResult EXCEPT
                          !.stories_fixed = IF content # original THEN 1 ELSE 0,
                          !.unresolved_refs =
                             UnresolvedOf(mapping, context, "01-setup", "Blocks", original)]
          /\ report' = [original |-> ref, content |-> content, non_jira |-> NonJiraOfRow(content)]
  /\ pc' = "rowfixed"
  /\ UNCHANGED <<docs, hdr, issues, links, pos, resume, epic_map, story_map, task_map, errors,
                 created_count, skipped_count, run, fails, crashes, all_data, start,
                 mapping, state_file, call>>

\* JiraClient.get_existing_links: the other ends of the links of an issue
get_existing_links(issue_key) ==
  {links[i][2] : i \in {j \in 1..Len(links) : links[j][1] = issue_key}}
    \cup {links[i][1] : i \in {j \in 1..Len(links) : links[j][2] = issue_key}}

\* create_missing_links on that file: a link from the story's key to every
\* token of the Blocks row that is_jira_key accepts and that is not linked yet
MapTreeCreateLinks ==
  /\ pc = "rowfixed"
  /\ LET story_jira == Get(mapping.stories, "01-setup")
         refs == report.content
         existing == get_existing_links(story_jira)
         hit == SelectSeq(refs.toks, LAMBDA ref : is_jira_key(ref) /\ ref \notin existing)
         calls == IF story_jira = "" \/ (Len(refs.toks) = 1 /\ Lower(refs.toks[1]) \in {"", "-", "none"})
                  THEN <<>>
                  ELSE [i \in 1..Len(hit) |-> <<story_jira, hit[i]>>]
     IN /\ links' = links \o calls
        /\ result' = [result EXCEPT !.links_created = @ + Len(calls)]
  /\ pc' = "rowlinked"
  /\ UNCHANGED <<docs, hdr, issues, pos, resume, epic_map, story_map, task_map, errors,
                 created_count, skipped_count, report, run, fails, crashes, all_data, start,
                 mapping, state_file, call>>

(***************************************************************************)
(* jira-sync-comprehensive.py: BMadParser, SyncState, sync_to_jira.  The   *)
(* objects parsed at the start of a run are all_data; stats are the        *)
(* counters created_count, skipped_count and errors.                       *)
(***************************************************************************)
\* file_path.stem.replace("story-", "").upper()
StoryStemUpper(s) == IF s = "A2" THEN "LOGIN" ELSE "SETUP"

\* Story.id and Task.id: the header id, else the id made from the file name
CompStoryId(s) == IF HeaderId(s) # "" THEN HeaderId(s) ELSE StoryStemUpper(s)
CompTaskId(t) == CompStoryId(StoryOf(t)) \o "-T" \o TaskNo(t)

\* Story.story_num: int of the digits the directory name starts with
story_num(s) == IF s = "A2" THEN 2 ELSE 1
\* Task.task_num
task_num(t) == IF t = "A1T2" THEN 2 ELSE 1

\* the loops of Phase 2 and Phase 3 over epics and their stories and tasks
StoryOrder == <<"A1", "A2", "B1">>
TaskOrder == <<"A1T1", "A1T2", "B1T1">>

\* state.get_*_key(id) or <object>.jira_key
CompKey(e) ==
  CASE e \in Epics -> Or(Get(state_file.epics, EpicDir(e)), all_data[e].key)
    [] e \in Stories -> Or(Get(state_file.stories, CompStoryId(e)), all_data[e].key)
    [] OTHER -> Or(Get(state_file.tasks, CompTaskId(e)), all_data[e].key)

\* state.set_epic_key / set_story_key / set_task_key, saved to the file
SetKey(sf, e, key) ==
  CASE e \in Epics -> [sf EXCEPT !.epics = Put(@, EpicDir(e), key)]
    [] e \in Stories -> [sf EXCEPT !.stories = Put(@, CompStoryId(e), key)]
    [] OTHER -> [sf EXCEPT !.tasks = Put(@, CompTaskId(e), key)]

CompStart(r) ==
  /\ pc \in {"idle", "c_done"}
  /\ run < MaxRuns
  /\ run' = run + 1
  /\ resume' = r
  /\ all_data' = docs
  /\ pc' = "c_epics"
  /\ pos' = 1
  /\ FreshMemory
  /\ UNCHANGED <<docs, hdr, issues, links, fails, crashes, start, mapping, result, state_file,
                 call>>

\* one turn of a create loop for the entity e whose parent key is parent
CompCreate(e, parent) ==
  LET existing_key == CompKey(e)
  IN \E ok \in BOOLEAN :
       IF resume /\ existing_key # ""
       THEN /\ ok
            /\ skipped_count' = skipped_count + 1
            \* story.jira_key = existing_key, task.jira_key = existing_key
            /\ all_data' = IF e \in Epics THEN all_data
                           ELSE [all_data EXCEPT ![e].key = existing_key]
            /\ UNCHANGED <<docs, issues, state_file, created_count, errors, fails>>
       ELSE IF ok
       THEN /\ Len(issues) < MaxIssues
            /\ issues' = Append(issues, Issue(e, parent, docs[e]))
            /\ state_file' = SetKey(state_file, e, KeyStr(Len(issues) + 1))
            /\ all_data' = [all_data EXCEPT ![e].key = KeyStr(Len(issues) + 1)]
            /\ created_count' = created_count + 1
            /\ docs' = update_jira_key_in_file(docs, e, KeyStr(Len(issues) + 1))
            /\ UNCHANGED <<skipped_count, errors, fails>>
       ELSE /\ fails < MaxFails
            /\ fails' = fails + 1
            /\ errors' = Append(errors, <<"ERROR creating", e>>)
            /\ UNCHANGED <<docs, issues, state_file, all_data, created_count, skipped_count>>

CompCreateEpic ==
  /\ pc = "c_epics"
  /\ CompCreate(EpicOrder[pos], "")
  /\ Advance(EpicOrder, "c_stories")
  /\ UNCHANGED <<hdr, links, resume, epic_map, story_map, task_map, report, run, crashes,
                 start, mapping, result, call>>

CompCreateStory ==
  /\ pc = "c_stories"
  /\ CompCreate(StoryOrder[pos], CompKey(EpicOf(StoryOrder[pos])))
  /\ Advance(StoryOrder, "c_tasks")
  /\ UNCHANGED <<hdr, links, resume, epic_map, story_map, task_map, report, run, crashes,
                 start, mapping, result, call>>

\* the tasks of a story without a key are passed over
CompCreateTask ==
  /\ pc = "c_tasks"
  /\ LET story_jira_key == CompKey(StoryOf(TaskOrder[pos]))
     IN IF story_jira_key = ""
        THEN UNCHANGED <<docs, issues, state_file, all_data, created_count, skipped_count,
                         errors, fails>>
        ELSE CompCreate(TaskOrder[pos], story_jira_key)
  /\ Advance(TaskOrder, "c_links")
  /\ UNCHANGED <<hdr, links, resume, epic_map, story_map, task_map, report, run, crashes,
                 start, mapping, result, call>>

\* re.match(r'S(\d+)', dep) and re.match(r'T(\d+)', req): the number, 0 without a match
RefNum(tok) ==
  CASE tok \in {"S1", "T1"} -> 1
    [] tok \in {"S2", "T2"} -> 2
    [] OTHER -> 0

\* the list a Depends On / Requires row parses to: nothing for a none row
ParsedRefs(f) ==
  IF Len(f.toks) = 1 /\ Lower(f.toks[1]) \in {"none", "-", ""} THEN <<>> ELSE f.toks

\* the objects after "Reload state for link creation"
Reloaded == [e \in Entities |-> IF e \in Epics THEN all_data[e]
                                ELSE [all_data[e] EXCEPT !.key = CompKey(e)]]

\* the keys a token of the entity e resolves to: the story of that number in
\* the epic of e, the task of that number in the story of e
CompTargets(objs, e, tok) ==
  IF e \in Stories
  THEN {objs[x].key : x \in {y \in Stories : /\ EpicOf(y) = EpicOf(e)
                                             /\ story_num(y) = RefNum(tok)
                                             /\ objs[y].key # ""}}
  ELSE {objs[x].key : x \in {y \in Tasks : /\ StoryOf(y) = StoryOf(e)
                                           /\ task_num(y) = RefNum(tok)
                                           /\ objs[y].key # ""}}

\* the create_issue_link calls of Phase 4 for the entities ents, skipping the
\* links the state file lists in links_created
RECURSIVE CompLinks(_, _, _)
CompLinks(objs, ents, done) ==
  IF ents = <<>> THEN <<>>
  ELSE LET e == Head(ents)
           refs == ParsedRefs(objs[e].refs[IF e \in Stories THEN "Depends On" ELSE "Requires"])
           hit == SelectSeq(refs, LAMBDA tok : /\ objs[e].key # ""
                                               /\ CompTargets(objs, e, tok) # {}
                                               /\ \A k \in CompTargets(objs, e, tok) :
                                                     <<k, objs[e].key>> \notin done)
           calls == [i \in 1..Len(hit) |->
                       <<CHOOSE k \in CompTargets(objs, e, hit[i]) : TRUE, objs[e].key>>]
       IN calls \o CompLinks(objs, Tail(ents), done \cup {calls[i] : i \in 1..Len(calls)})

CompLink ==
  /\ pc = "c_links"
  /\ LET calls == CompLinks(Reloaded, StoryOrder \o TaskOrder, state_file.links_created)
     IN /\ links' = links \o calls
        /\ state_file' = [state_file EXCEPT
                            !.links_created = @ \cup {calls[i] : i \in 1..Len(calls)}]
  /\ all_data' = Reloaded
  /\ pc' = "c_done"
  /\ pos' = 1
  /\ KeepMemory
  /\ UNCHANGED <<docs, hdr, issues, resume, run, fails, crashes, start, mapping, result, call>>

(***************************************************************************)
(* The transport wrappers: JiraClient.request of jira-sync-all.py and of   *)
(* jira-post-import-fix.py (the same code), JiraClient._request of         *)
(* jira-sync-comprehensive.py, and the operations built on them.  A call   *)
(* is followed attempt by attempt; the remote store answers each attempt   *)
(* with a success, a rate-limit signal, a server error, a client error or  *)
(* not at all within the timeout.                                          *)
(***************************************************************************)
RequestAttempts == 3   \* for attempt in range(3)
MAX_RETRIES == 3       \* jira-sync-comprehensive.py

Responses == {"200", "429", "500", "400", "timeout"}

\* the operations of each client that go through its wrapper
Operations(script) ==
  CASE script = "jira-sync-all" -> {"get_issue_types", "create_issue", "update_issue", "create_link"}
    [] script = "jira-post-import-fix" -> {"update_issue", "create_link"}
    [] OTHER -> {"create_issue", "create_issue_link"}
Scripts == {"jira-sync-all", "jira-post-import-fix", "jira-sync-comprehensive"}

\* no call yet
NoCall ==
  [script |-> "", op |-> "", seen |-> <<>>, retries |-> 0, status |-> "idle", result |-> "",
   applied |-> 0]

\* session.request(..., timeout=30) answered by r: whether the store applied
\* the request of that attempt.  It did before it answered 2xx and did not when
\* it answered an error; when the client gave up waiting, either
StoreApplied(r) ==
  CASE r = "200" -> {TRUE}
    [] r = "timeout" -> BOOLEAN
    [] OTHER -> {FALSE}

\* JiraClient.request: one turn of the loop over range(3), answered by r.  The
\* call goes on ("pending"), returns the body ("json"), leaves the loop and
\* returns None ("none"), or raises ("raised").
request(c, r) ==
  LET attempt == Len(c.seen)
      c1 == [c EXCEPT !.seen = Append(@, r)]
  IN CASE r = "200" -> [c1 EXCEPT !.status = "json"]
       [] r = "429" -> IF attempt + 1 < RequestAttempts THEN c1 ELSE [c1 EXCEPT !.status = "none"]
       [] r = "timeout" -> IF attempt < 2 THEN c1 ELSE [c1 EXCEPT !.status = "raised"]
       [] OTHER -> [c1 EXCEPT !.status = "raised"]

\* JiraClient._request: one activation, answered by r; a retry is the call of
\* itself with retries or retries + 1
request_comprehensive(c, r) ==
  LET c1 == [c EXCEPT !.seen = Append(@, r)]
  IN CASE r = "429" -> c1
       [] r = "500" -> IF c.retries < MAX_RETRIES THEN [c1 EXCEPT !.retries = @ + 1]
                       ELSE [c1 EXCEPT !.status = "raised"]
       [] r = "timeout" -> IF c.retries < MAX_RETRIES THEN [c1 EXCEPT !.retries = @ + 1]
                           ELSE [c1 EXCEPT !.status = "raised"]
       [] r = "200" -> [c1 EXCEPT !.status = "json"]
       [] OTHER -> [c1 EXCEPT !.status = "raised"]

\* what the operation reports to its caller once the wrapper is done:
\* create_issue reads the key of the body (None has none: the exception is
\* caught and None returned); update_issue, create_link and create_issue_link
\* return True unless the wrapper raised.  get_issue_types is called by
\* create_issue of jira-sync-all.py before its try block and reads
\* project.get(...): an exception of the wrapper, or None, leaves create_issue,
\* create_jira_issues and main as an exception ("aborted").
Reported(c) ==
  CASE c.status = "pending" -> ""
    [] c.op = "get_issue_types" -> IF c.status = "json" THEN "success" ELSE "aborted"
    [] c.status = "raised" -> "failure"
    [] c.status = "none" -> IF c.op = "create_issue" THEN "failure" ELSE "success"
    [] OTHER -> "success"

WithResult(c) == [c EXCEPT !.result = Reported(c)]

\* an operation of a client starts a call
CallStart(script, op) ==
  /\ call.status # "pending"
  /\ call' = [script |-> script, op |-> op, seen |-> <<>>, retries |-> 0,
              status |-> "pending", result |-> "", applied |-> 0]
  /\ UNCHANGED scriptState

\* an attempt of a call of jira-sync-all.py or jira-post-import-fix.py
Request(r) ==
  /\ call.status = "pending"
  /\ call.script \in {"jira-sync-all", "jira-post-import-fix"}
  /\ \E applied \in StoreApplied(r) :
       call' = [WithResult(request(call, r)) EXCEPT !.applied = IF applied THEN @ + 1 ELSE @]
  /\ UNCHANGED scriptState

\* an attempt of a call of jira-sync-comprehensive.py
CompRequest(r) ==
  /\ call.status = "pending"
  /\ call.script = "jira-sync-comprehensive"
  /\ Len(call.seen) < MaxAttempts
  /\ \E applied \in StoreApplied(r) :
       call' = [WithResult(request_comprehensive(call, r)) EXCEPT
                  !.applied = IF applied THEN @ + 1 ELSE @]
  /\ UNCHANGED scriptState

\* what the store can answer to DELETE /issue/<key>
DeleteResponses == {"204", "404", "403", "timeout"}

\* delete_issue of jira-cleanup.py and JiraClient.delete_issue of
\* jira-sync-all.py: one DELETE outside the wrapper; the first has no handler
\* for an exception, the second returns False on one
delete_issue(script, r) ==
  CASE r = "204" -> "success"
    [] r = "404" -> IF script = "jira-cleanup" THEN "success" ELSE "failure"
    [] r = "timeout" -> IF script = "jira-cleanup" THEN "aborted" ELSE "failure"
    [] OTHER -> "failure"

\* a delete call, answered by r
DeleteIssue(script, r) ==
  /\ call.status # "pending"
  /\ call' = [script |-> script, op |-> "delete_issue", seen |-> <<r>>, retries |-> 0,
              status |-> "done", result |-> delete_issue(script, r),
              applied |-> IF r = "204" THEN 1 ELSE 0]
  /\ UNCHANGED scriptState

(***************************************************************************)
(* The documents as authored: no JIRA Key yet, and the reference rows in   *)
(* one of the authoring styles (S<n>/T<n>, bare ordinals and ids, none);    *)
(* the bare style has a row of two tokens, one of them naming no story,    *)
(* and a row that names a story by its ordinal and by its directory; one   *)
(* none row is written with a capital.                                     *)
(***************************************************************************)
Row(tok) == Field(<<tok>>, FALSE)

AuthoredRefs(e, style) ==
  CASE e = "A" -> [f \in FieldsOf(e) |-> IF f = "Blocks" THEN Row("2-PLAT") ELSE Row("-")]
    [] e = "B" -> [f \in FieldsOf(e) |-> IF f = "Depends On" THEN Row("EPIC-1-AUTH") ELSE Row("-")]
    [] e = "A1" -> [f \in FieldsOf(e) |->
                      IF f = "Depends On" \/ style = "none" THEN Row("-")
                      ELSE IF style = "S" THEN Row("S2") ELSE Field(<<"2", "02-login">>, FALSE)]
    [] e = "A2" -> [f \in FieldsOf(e) |->
                      IF f = "Blocks" \/ style = "none" THEN Row("-")
                      ELSE IF style = "S" THEN Row("S1") ELSE Field(<<"1", "3">>, FALSE)]
    [] e = "B1" -> [f \in FieldsOf(e) |->
                      IF f = "Blocks" THEN Row("None")
                      ELSE IF style = "none" THEN Row("none")
                      ELSE IF style = "S" THEN Row("S2") ELSE Row("AUTH-001-2")]
    [] e = "A1T1" -> [f \in FieldsOf(e) |->
                      IF f = "Requires" \/ style = "none" THEN Row("none") ELSE Row("T2")]
    [] e = "A1T2" -> [f \in FieldsOf(e) |->
                      IF f = "Unlocks" \/ style = "none" THEN Row("none") ELSE Row("T1")]
    [] OTHER -> [f \in FieldsOf(e) |->
                      IF f = "Requires" \/ style = "none" THEN Row("none") ELSE Row("T2")]

Styles == {"S", "bare", "none"}
AuthoredDocs(style) == [e \in Entities |-> [key |-> "", refs |-> AuthoredRefs(e, style)]]

\* every story header has a three-part id, or the two stories kept in "01-setup"
\* have a header without one
HeaderForms ==
  {[s \in Stories |-> "full"],
   [s \in Stories |-> IF s = "A2" THEN "full" ELSE "none"]}

Init ==
  /\ docs \in {AuthoredDocs(st) : st \in Styles}
  /\ hdr \in HeaderForms
  /\ issues = <<>>
  /\ links = <<>>
  /\ pc = "idle"
  /\ pos = 1
  /\ resume = FALSE
  /\ epic_map = EmptyMap
  /\ story_map = EmptyMap
  /\ task_map = EmptyMap
  /\ errors = <<>>
  /\ created_count = 0
  /\ skipped_count = 0
  /\ report = <<>>
  /\ run = 0
  /\ fails = 0
  /\ crashes = 0
  /\ all_data = docs
  /\ start = [issues |-> 0, links |-> 0, fails |-> 0, clean |-> FALSE]
  /\ mapping = EmptyMapping
  /\ result = NewFixResult
  /\ state_file = NewStateFile
  /\ call = NoCall

Next ==
  \/ \E r \in BOOLEAN : StartRun(r)
  \/ CreateEpic
  \/ CreateStory
  \/ CreateTask
  \/ Crash
  \/ CrashAfterCreate
  \/ LinkStory
  \/ LinkTask
  \/ ConvertEpic
  \/ UpdateEpic
  \/ Validate

Spec == Init /\ [][Next]_vars

\* jira-sync-all.py and jira-post-import-fix.py run one after the other on the
\* same documents
NextFix ==
  \/ Next
  \/ FixStart
  \/ FixEpic
  \/ FixStory
  \/ FixTask
  \/ FixValidate

SpecFix == Init /\ [][NextFix]_vars

\* runs of jira-sync-comprehensive.py
NextComp ==
  \/ \E r \in BOOLEAN : CompStart(r)
  \/ CompCreateEpic
  \/ CompCreateStory
  \/ CompCreateTask
  \/ CompLink
  \/ Crash

SpecComp == Init /\ [][NextComp]_vars

\* calls through the transport wrappers of the three clients
NextReq ==
  \/ \E script \in Scripts : \E op \in Operations(script) : CallStart(script, op)
  \/ \E r \in Responses : Request(r)
  \/ \E r \in Responses : CompRequest(r)
  \/ \E script \in {"jira-sync-all", "jira-cleanup"} : \E r \in DeleteResponses :
        DeleteIssue(script, r)

SpecReq == Init /\ [][NextReq]_vars

\* runs of jira-sync-all.py with its flags, and with a remote store that can
\* fail the issue-type lookup
NextMain ==
  \/ Next
  \/ LookupAbort
  \/ \E reset \in BOOLEAN, clean_jira \in BOOLEAN : DryRun(reset, clean_jira)

SpecMain == Init /\ [][NextMain]_vars

\* build_complete_mapping over the epic with the letter-suffixed story
NextMap ==
  \/ MapTreeStart
  \/ MapTreeStory
  \/ MapTreeFixRow
  \/ MapTreeCreateLinks

SpecMap == Init /\ [][NextMap]_vars

(***************************************************************************)
(* Properties of jira-sync-all.py, checked under Spec.                     *)
(***************************************************************************)
\* the remote issues created for an entity
IssuesOf(e) == {i \in 1..Len(issues) : issues[i].by = e}

\* the entity has a remote key: one is written in its document, or the remote
\* store holds an issue created for it
HasRemoteKey(e) == docs[e].key # "" \/ IssuesOf(e) # {}

\* the step created a remote issue for the entity e
CreatedFor(e) == Len(issues') = Len(issues) + 1 /\ issues'[Len(issues')].by = e

\* C1: over any number of runs of the create phase, interrupted and re-run with
\* or without --resume, at most one remote issue is ever created for an entity.
C1_AtMostOneIssue == \A e \in Entities : Cardinality(IssuesOf(e)) <= 1

\* C2: a run of the whole pipeline on the documents left by a complete,
\* failure-free run creates no remote issue, creates no remote link and leaves
\* every document as it was.
C2_SecondRunChangesNothing ==
  start.clean => /\ Len(issues) = start.issues
                 /\ Len(links) = start.links
                 /\ docs = all_data

\* C4: a story-level token 1 / S1 / 2 / S2 in a story of one epic is never
\* rewritten to the key of a story of another epic, and never linked to one.
ShortStoryTokens == {"1", "2", "S1", "S2"}
StoryKeysOutside(ep) ==
  {KeyStr(i) : i \in {j \in 1..Len(issues) :
                        issues[j].by \in Stories /\ EpicOf(issues[j].by) # ep}}
RewrittenOutsideEpic ==
  \E s \in Stories, fn \in {"Depends On", "Blocks"} :
     \E i \in 1..Len(docs[s].refs[fn].toks) :
        /\ docs[s].refs[fn].toks[i] \in ShortStoryTokens
        /\ Len(docs'[s].refs[fn].toks) = Len(docs[s].refs[fn].toks)
        /\ docs'[s].refs[fn].toks[i] # docs[s].refs[fn].toks[i]
        /\ docs'[s].refs[fn].toks[i] \in StoryKeysOutside(EpicOf(s))
LinkedOutsideEpic ==
  /\ pc = "links"
  /\ LinkOrder[pos] \in Stories
  /\ \A i \in 1..Len(all_data[LinkOrder[pos]].refs["Blocks"].toks) :
        all_data[LinkOrder[pos]].refs["Blocks"].toks[i] \in ShortStoryTokens
  /\ \E n \in (Len(links) + 1)..Len(links') :
        links'[n][2] \in StoryKeysOutside(EpicOf(LinkOrder[pos]))
C4_StoryRefStaysInEpic == [][~RewrittenOutsideEpic /\ ~LinkedOutsideEpic]_vars

\* C6: a token Tn in a Requires or Unlocks row of a task of story X is rewritten
\* only to the key of the task numbered n of X itself.
TaskKeysOf(s, tok) ==
  {KeyStr(i) : i \in {j \in 1..Len(issues) :
                        /\ issues[j].by \in Tasks
                        /\ StoryOf(issues[j].by) = s
                        /\ "T" \o TaskNo(issues[j].by) = tok}}
C6_TaskRefStaysInStory ==
  [][\A t \in Tasks, fn \in {"Requires", "Unlocks"} :
        \A i \in 1..Len(docs[t].refs[fn].toks) :
           (/\ docs[t].refs[fn].toks[i] \in {"T1", "T2"}
            /\ Len(docs'[t].refs[fn].toks) = Len(docs[t].refs[fn].toks)
            /\ docs'[t].refs[fn].toks[i] # docs[t].refs[fn].toks[i])
           => docs'[t].refs[fn].toks[i] \in TaskKeysOf(StoryOf(t), docs[t].refs[fn].toks[i])]_vars

\* C7: no create call is issued for a Task whose parent Story has no remote key
\* at that moment.
C7_TaskAfterStory ==
  [][\A t \in Tasks : CreatedFor(t) => HasRemoteKey(StoryOf(t))]_vars

\* C8: no create call is issued for a Story unless its Epic already has a
\* remote key.
C8_StoryAfterEpic ==
  [][\A s \in Stories : CreatedFor(s) => HasRemoteKey(EpicOf(s))]_vars

(***************************************************************************)
(* Properties of reference resolution, checked under SpecFix.              *)
(***************************************************************************)
StoryKeysOfEpic(ep) ==
  {KeyStr(i) : i \in {j \in 1..Len(issues) :
                        issues[j].by \in Stories /\ EpicOf(issues[j].by) = ep}}

\* C5: a bare-ordinal or S-prefixed token in a Depends On or Blocks row of a
\* story is rewritten by jira-post-import-fix.py only to the key of a story of
\* the same epic, never to an epic's key or to a key from outside the epic.
C5_ShortTokenScoped ==
  [][(pc = "fix" /\ FixOrder[pos] \in Stories) =>
       (\A fn \in {"Depends On", "Blocks"} :
          \A i \in 1..Len(docs[FixOrder[pos]].refs[fn].toks) :
             (/\ docs[FixOrder[pos]].refs[fn].toks[i] \in ShortStoryTokens
              /\ docs'[FixOrder[pos]].refs[fn].toks[i] # docs[FixOrder[pos]].refs[fn].toks[i])
             => docs'[FixOrder[pos]].refs[fn].toks[i]
                   \in StoryKeysOfEpic(EpicOf(FixOrder[pos])))]_vars

\* the reference rows of the documents, and the contexts a file is fixed in
AllRows == UNION {{docs[e].refs[fn] : fn \in FieldsOf(e)} : e \in Entities}
Contexts == {Context(e) : e \in Entities}

\* C9: resolving a resolved row again changes nothing: for every row of the
\* documents, the tables the scripts hold, every context,
\* resolve(resolve(c)) = resolve(c), for replace_refs of
\* jira-post-import-fix.py and for the three resolvers of jira-sync-all.py.
C9_ResolveIdempotent ==
  LET epics == build_epic_jira_map(docs)
  IN \A f \in AllRows :
        /\ \A context \in Contexts :
              LET r == replace_refs(mapping, context, f)
              IN replace_refs(mapping, context, r) = r
        /\ LET r == convert_story_refs(story_map, f)
           IN convert_story_refs(story_map, r) = r
        /\ \A t \in Tasks :
              LET r == convert_task_refs(task_map, t, f)
              IN convert_task_refs(task_map, t, r) = r
        /\ LET r == convert_epic_ref_row(epics, f)
           IN convert_epic_ref_row(epics, r) = r

\* a fix run that rewrote story and task rows to keys has ended
C9_Resolved ==
  /\ pc = "fixed"
  /\ result.stories_fixed > 0
  /\ result.tasks_fixed > 0
  /\ \E s \in Stories : docs[s].refs["Depends On"].toks[1] \in RemoteKeys
  /\ \E t \in Tasks : docs[t].refs["Unlocks"].toks[1] \in RemoteKeys

\* C10: a token that is a remote key is never rewritten by a later step, also
\* when more entities have a key than when it was written.
IssuedKeys == {KeyStr(i) : i \in 1..Len(issues)}
C10_KeyTokenStable ==
  [][\A e \in Entities : \A fn \in FieldsOf(e) :
        \A i \in 1..Len(docs[e].refs[fn].toks) :
           (docs[e].refs[fn].toks[i] \in IssuedKeys)
           => (/\ Len(docs'[e].refs[fn].toks) = Len(docs[e].refs[fn].toks)
               /\ docs'[e].refs[fn].toks[i] = docs[e].refs[fn].toks[i])]_vars

\* a later run of jira-sync-all.py, started with more keys in the documents,
\* went through its convert phase over a row that already held a key
C10_KeyTokenSeenAgain ==
  /\ run >= 2
  /\ pc = "done"
  /\ Len(issues) > start.issues
  /\ \E s \in Stories : \E fn \in {"Depends On", "Blocks"} :
        /\ all_data[s].refs[fn].toks[1] \in RemoteKeys
        /\ docs[s].refs[fn].toks = all_data[s].refs[fn].toks

\* the step is a turn of Phase 3 of jira-post-import-fix.py on the file FixOrder[pos]
FixTurn == pc = "fix" /\ pc' \in {"fix", "fixval"}

\* the turn added the token to result.unresolved_refs
ReportedUnresolved(e, fn, tok) ==
  \E n \in (Len(result.unresolved_refs) + 1)..Len(result'.unresolved_refs) :
     result'.unresolved_refs[n] = <<e, fn, tok>>

\* C11: a token that a turn of the fix does not replace by a remote key is left
\* in the row exactly as it was (not removed, not replaced by an empty value)
\* and is listed in the unresolved references of the run; in particular a token
\* naming a story that has no remote key yet stays as authored.
C11_UnresolvedKept ==
  [][FixTurn =>
       \A fn \in FieldsOf(FixOrder[pos]) :
          ~RowIsNoneFix(docs[FixOrder[pos]].refs[fn]) =>
            /\ Len(docs'[FixOrder[pos]].refs[fn].toks) = Len(docs[FixOrder[pos]].refs[fn].toks)
            /\ \A i \in 1..Len(docs[FixOrder[pos]].refs[fn].toks) :
                  (/\ ~IsNoneFix(docs[FixOrder[pos]].refs[fn].toks[i])
                   /\ docs'[FixOrder[pos]].refs[fn].toks[i] \notin RemoteKeys)
                  => /\ docs'[FixOrder[pos]].refs[fn].toks[i] = docs[FixOrder[pos]].refs[fn].toks[i]
                     /\ ReportedUnresolved(FixOrder[pos], fn, docs[FixOrder[pos]].refs[fn].toks[i])]_vars

\* an empty row or a none sentinel, in any letter case
IsSentinelRow(f) == Len(f.toks) = 1 /\ Lower(f.toks[1]) \in {"", "-", "none"}

\* the step ends a validation phase, of either script
ValidationEnds == pc \in {"validate", "fixval"} /\ pc' \in {"done", "fixed"}

\* C12: a reference row that is empty or a none sentinel ('-', 'none' in any
\* letter case) is left as it is by every step of both scripts, is not listed
\* among the unresolved references of a fix run, and is not listed by the
\* validation phase of either script.
C12_NoneRowUntouched ==
  [][\A e \in Entities : \A fn \in FieldsOf(e) :
        IsSentinelRow(docs[e].refs[fn]) =>
          /\ docs'[e].refs[fn] = docs[e].refs[fn]
          /\ \A n \in 1..Len(result'.unresolved_refs) :
                result'.unresolved_refs[n] # <<e, fn, docs[e].refs[fn].toks[1]>>
          /\ ValidationEnds =>
                /\ <<"has non-JIRA ref", e, fn, docs[e].refs[fn].toks[1]>> \notin report'
                /\ <<e, fn, docs[e].refs[fn].toks[1]>> \notin report']_vars

\* the turn changed no token of the file e
NoTokenChanged(e) == \A fn \in FieldsOf(e) : docs'[e].refs[fn].toks = docs[e].refs[fn].toks

\* C13: a turn of the fix rewrites a row only if it converted one of its
\* tokens: a row whose tokens all stay keeps its text and spacing, and a file
\* in which no token changed is not written, not counted as fixed, and no
\* remote body update is issued for it.
C13_RewriteOnlyOnConversion ==
  [][FixTurn =>
       /\ \A fn \in FieldsOf(FixOrder[pos]) :
             (docs'[FixOrder[pos]].refs[fn].toks = docs[FixOrder[pos]].refs[fn].toks)
               => docs'[FixOrder[pos]].refs[fn] = docs[FixOrder[pos]].refs[fn]
       /\ NoTokenChanged(FixOrder[pos]) =>
             /\ docs' = docs
             /\ result'.epics_fixed = result.epics_fixed
             /\ result'.stories_fixed = result.stories_fixed
             /\ result'.tasks_fixed = result.tasks_fixed
             /\ result'.jira_updated = result.jira_updated
             /\ issues' = issues]_vars

\* the tokens of the corpus that name no entity: story 3 of EPIC-1-AUTH, story 2
\* of EPIC-2-PLAT and task 2 of its story do not exist
NamesNothing(e, tok) ==
  \/ e = "A2" /\ tok = "3"
  \/ e = "B1" /\ tok = "S2"
  \/ e = "B1T1" /\ tok = "T2"

\* a pass of jira-post-import-fix.py over all epics has ended, and every entity
\* of the two epics had a remote key when it built its mapping
GlobalPassDone == pc = "fixed" /\ \A e \in Entities : docs[e].key # ""

\* C14: EPIC-1-AUTH names EPIC-2-PLAT in its Blocks row and EPIC-2-PLAT names
\* EPIC-1-AUTH in its Depends On row.  Once every entity of both epics has a
\* remote key and the global pass has run, every token of every reference row
\* that is not a none sentinel and that names an entity has the shape of a
\* remote key.
C14_CycleResolved ==
  GlobalPassDone =>
    \A e \in Entities : \A fn \in FieldsOf(e) :
       ~IsSentinelRow(docs[e].refs[fn]) =>
          \A i \in 1..Len(docs[e].refs[fn].toks) :
             \/ is_jira_key(docs[e].refs[fn].toks[i])
             \/ NamesNothing(e, docs[e].refs[fn].toks[i])

\* the exit status of the process that ended: main of jira-sync-all.py returns
\* after its summary; main of jira-post-import-fix.py leaves with sys.exit(0)
\* when Phase 2 lists nothing, and with sys.exit(1) when Phase 5 lists a token
ExitStatus ==
  CASE pc = "done" -> 0
    [] pc = "fixed" -> IF NonJiraRefs(docs) # {} THEN 1 ELSE 0
    [] OTHER -> 0

\* C24: when a run has ended, its exit status is non-zero exactly when a
\* reference token is left unresolved in the documents or the run recorded an
\* error.
C24_ExitStatusTellsOutcome ==
  pc \in {"done", "fixed"} =>
    (ExitStatus # 0 <=> (NonJiraRefs(docs) # {} \/ errors # <<>>))

\* the reference rows of the remote body of the issue with that key
RemoteRefs(key) == issues[CHOOSE i \in 1..Len(issues) : KeyStr(i) = key].body.refs

\* C35: when a run of jira-post-import-fix.py has ended without reporting
\* anything (every token is a remote key, exit status 0), the remote body of
\* every entity that has a remote key holds the reference rows of its
\* document: a body whose push failed earlier has been pushed by now.
C35_FailedPushRepaired ==
  (pc = "fixed" /\ ExitStatus = 0) =>
    \A e \in Entities :
      docs[e].key \in IssuedKeys => RemoteRefs(docs[e].key) = docs[e].refs

(***************************************************************************)
(* Properties of a complete run of jira-sync-all.py, checked under Spec.   *)
(***************************************************************************)
\* the tasks of the story s that the token Tn names
TasksNamed(s, tok) == {u \in Tasks : StoryOf(u) = s /\ "T" \o TaskNo(u) = tok}

\* the run recorded that the create call for the task u failed
FailedToCreate(u) == \E n \in 1..Len(errors) : errors[n] = <<"Failed to create task", TaskId(u)>>

\* C15: at the end of a run of jira-sync-all.py, a token Tn that a task's
\* Requires or Unlocks row held when the run started is unchanged and listed by
\* the validation when the creation of task n of the same story failed in the
\* run; in a later run, started when the referring task had its
\* key and task n had none, in which task n gets its key, the token is
\* rewritten to the key of task n.
C15_FailedTaskThenRetry ==
  pc = "done" =>
    \A t \in Tasks : \A fn \in {"Requires", "Unlocks"} :
       \A i \in 1..Len(all_data[t].refs[fn].toks) :
          \A u \in TasksNamed(StoryOf(t), all_data[t].refs[fn].toks[i]) :
             /\ Len(docs[t].refs[fn].toks) = Len(all_data[t].refs[fn].toks)
             /\ IF FailedToCreate(u)
                THEN /\ docs[t].refs[fn].toks[i] = all_data[t].refs[fn].toks[i]
                     /\ <<"has non-JIRA ref", t, fn, all_data[t].refs[fn].toks[i]>> \in report
                ELSE (KeyInState(u) # "" /\ all_data[t].key # "" /\ all_data[u].key = "")
                        => docs[t].refs[fn].toks[i] = KeyInState(u)

\* C16: a create call is issued for an entity only after a search of the remote
\* store for an issue of the same kind and title: when the store holds such an
\* issue no create call is issued, unless the search request itself failed.
C16_SearchBeforeCreate ==
  [][\A e \in Entities :
        CreatedFor(e) => (SearchMatches(e) = {} \/ (resume /\ fails' > fails))]_vars

\* C17: over any number of runs, interrupted and re-run, no create-link call is
\* issued for a pair (from_key, to_key) for which one was issued before: the
\* remote store holds at most one link per pair.
C17_AtMostOneLink ==
  \A i \in 1..Len(links) : \A j \in 1..Len(links) : i # j => links[i] # links[j]

\* the reference rows of the documents
RefsOf(d) == [e \in Entities |-> d[e].refs]

C29_NoPartialForm ==
  (\E s \in Stories : hdr[s] # "full") => (DOMAIN story_map) \cap {"", "S"} = {}

\* the entities a token in a row of e names by the authoring convention: a
\* story of the same epic by its ordinal, S<ordinal> or directory name, any
\* story by its fully-qualified id, a task of the same story by T<n>
Named(e, tok) ==
  IF e \in Stories
  THEN {s \in Stories \ {e} :
          \/ tok = Id3(s)
          \/ /\ EpicOf(s) = EpicOf(e)
             /\ tok \in {ToString(story_num(s)), "S" \o ToString(story_num(s)), StoryDir(s)}}
  ELSE IF e \in Tasks THEN TasksNamed(StoryOf(e), tok) \ {e}
  ELSE {}

NamedIn(d, e, fn) == UNION {Named(e, d[e].refs[fn].toks[i]) : i \in 1..Len(d[e].refs[fn].toks)}

\* the dependencies the rows of d state, as pairs <<blocker, blocked>>
StatedDependencies(d) ==
  UNION {{<<b, e>> : b \in NamedIn(d, e, "Depends On")} \cup
         {<<e, x>> : x \in NamedIn(d, e, "Blocks")} : e \in Stories}
  \cup
  UNION {{<<b, t>> : b \in NamedIn(d, t, "Requires")} \cup
         {<<t, x>> : x \in NamedIn(d, t, "Unlocks")} : t \in Tasks}

FailureFreeRunLinked ==
  run = 1 /\ fails = 0 /\ crashes = 0 /\ pc \in {"convert", "update", "validate", "done"}

\* C30: after the link phase of a first run in which no call failed and
\* nothing was interrupted, every dependency that a Depends On, Blocks,
\* Requires or Unlocks row of the collected documents states between two
\* entities that both have a remote key has its create-link call.  Stated for
\* documents whose story headers all carry their three-part id, where every
\* entity is registered under its own forms only.
C30_StatedDependencyLinked ==
  (FailureFreeRunLinked /\ \A s \in Stories : hdr[s] = "full") =>
    \A dep \in StatedDependencies(all_data) :
       (docs[dep[1]].key # "" /\ docs[dep[2]].key # "")
         => \E i \in 1..Len(links) : links[i] = <<docs[dep[1]].key, docs[dep[2]].key>>

\* C31: create_jira_issues accounts for every collected entity exactly once:
\* while it runs, created_count + skipped_count + len(errors) is the number
\* of entities it has passed, and from its end on the number of epics,
\* stories and tasks of the run, whatever succeeded and whatever failed.
C31_EveryEntityAccounted ==
  /\ pc = "create" => created_count + skipped_count + Len(errors) = pos - 1
  /\ pc \in {"links", "convert", "update", "validate", "done"}
       => created_count + skipped_count + Len(errors) = Len(CreateOrder)

\* create_jira_issues has ended with entities created, skipped and failed
C31_MixedOutcomes ==
  pc = "links" /\ pos = 1 /\ created_count > 0 /\ skipped_count > 0 /\ errors # <<>>

\* the key the run holds in memory for an entity, "" when it holds none
KeyInMemory(e) ==
  CASE e \in Epics -> Get(epic_map, EpicDir(e))
    [] e \in Stories -> Get(story_map, StoryId(e))
    [] OTHER -> Get(task_map, <<TaskId(e)>>)

\* C32: at the end of the create phase every entity for which the run holds
\* a key in memory, created in this run or found by the search of --resume,
\* has that key in the JIRA Key row of its document.  Stated for documents
\* whose story headers all carry their three-part id, so that every entity
\* has its own entry in memory.
C32_KeyInMemoryIsInDocument ==
  (pc = "links" /\ pos = 1 /\ \A s \in Stories : hdr[s] = "full") =>
    \A e \in Entities : KeyInMemory(e) # "" => docs[e].key = KeyInMemory(e)

\* the entities a token in a row of e names once rows may hold remote keys:
\* what the authoring convention gives, or the story, or the task of the same
\* story, whose document holds that key
NamedOrKeyed(e, tok) ==
  Named(e, tok) \cup
  {x \in Entities \ {e} :
     /\ Kind(x) = Kind(e)
     /\ e \in Tasks => StoryOf(x) = StoryOf(e)
     /\ tok # "" /\ docs[x].key = tok}

\* the row of e that the link phase reads
LinkField(e) == IF e \in Tasks THEN "Unlocks" ELSE "Blocks"

\* C34: when a full run has ended in which no call failed, every dependency
\* that the Blocks row of a story or the Unlocks row of a task states, as a
\* symbolic token or as the remote key an earlier run wrote in its place,
\* between two entities that have remote keys has its link in the store: a
\* link that failed in an earlier run has been made by now.  Stated for
\* documents whose story headers all carry their three-part id and for
\* behaviours without an interruption in which every entity had its one issue
\* before the run started.
C34_FailedLinkMadeLater ==
  (/\ pc = "done" /\ fails = start.fails
   /\ crashes = 0 /\ start.issues = Cardinality(Entities) /\ Len(issues) = start.issues
   /\ \A s \in Stories : hdr[s] = "full") =>
    \A e \in Stories \cup Tasks :
      \A i \in 1..Len(docs[e].refs[LinkField(e)].toks) :
        \A x \in NamedOrKeyed(e, docs[e].refs[LinkField(e)].toks[i]) :
          (docs[e].key # "" /\ docs[x].key # "")
            => \E n \in 1..Len(links) : links[n] = <<docs[e].key, docs[x].key>>

\* C23: when the run has ended, validation has listed every token of the
\* reference rows of the stories and tasks that is neither in a none row nor
\* of the shape of a remote key; a full local id left in a row is listed.
C23_ValidationReportsAll ==
  pc = "done" =>
    \A e \in Stories \cup Tasks : \A fn \in FieldsOf(e) :
       \A i \in 1..Len(docs[e].refs[fn].toks) :
          (~IsSentinelRow(docs[e].refs[fn]) /\ ~is_jira_key(docs[e].refs[fn].toks[i]))
          => <<"has non-JIRA ref", e, fn, docs[e].refs[fn].toks[i]>> \in report

(***************************************************************************)
(* Properties of build_complete_mapping over the epic with the             *)
(* letter-suffixed story, checked under SpecMap.                           *)
(***************************************************************************)
\* the ordinal of the story a directory of that epic holds
DirOrdinal(dir) == CASE dir = "01-setup" -> "1" [] dir = "02-login" -> "2" [] OTHER -> "2a"

\* the directory of the story a short token denotes: <ordinal> or S<ordinal>
DenotedDir(tok) ==
  CHOOSE dir \in {SuffixedDirs[i] : i \in 1..Len(SuffixedDirs)} :
    tok \in {DirOrdinal(dir), "S" \o DirOrdinal(dir)}

\* C28: while build_complete_mapping goes through the story directories of
\* an epic, the step of one story changes no scoped form (epic, short token)
\* that a story before it registered, and in the finished table every scoped
\* form maps to the key of the story whose ordinal the token is: (epic, "2")
\* and (epic, "S2") to the key of story 2, also when story 2a exists.
C28_ScopedFormDenotesOneStory ==
  [][pc = "map" =>
       /\ \A f \in DOMAIN mapping.stories_by_epic :
            mapping'.stories_by_epic[f] = mapping.stories_by_epic[f]
       /\ pc' = "mapped" =>
            \A f \in DOMAIN mapping'.stories_by_epic :
               mapping'.stories_by_epic[f] = mapping'.stories[DenotedDir(f[2])]]_vars

\* the header ids of that epic that have the form PREFIX-number
TwoPartNumberIds == {DirHeaderId("01-setup", "short"), DirHeaderId("02-login", "short")}

\* C36: a token that is the two-part header id of a story registered with a
\* remote key is rewritten to that key by fix_story, and a row that still
\* holds the id has it listed by validation.
C36_LocalIdNotTakenForKey ==
  (/\ pc = "rowfixed"
   /\ report.original \in TwoPartNumberIds
   /\ Get(mapping.stories, report.original) # "") =>
     /\ report.content.toks = <<mapping.stories[report.original]>>
     /\ \A i \in 1..Len(report.content.toks) :
          report.content.toks[i] = report.original => report.original \in report.non_jira

\* C37: no create-link call has the same issue at both ends, also when the
\* row of a story names the story itself.
C37_NoSelfLink == \A i \in 1..Len(links) : links[i][1] # links[i][2]

(***************************************************************************)
(* Properties of the transport wrappers, checked under SpecReq.            *)
(***************************************************************************)
\* the attempts a call may make: the turns of the loop over range(3), and the
\* first activation of _request plus MAX_RETRIES retries
AttemptBound(script) ==
  IF script = "jira-sync-comprehensive" THEN MAX_RETRIES + 1 ELSE RequestAttempts

\* C18: whatever the remote store answers (rate limit, server error, timeout,
\* in any order), a call makes at most the fixed number of attempts of its
\* wrapper; a store that always answers 429 does not keep it retrying.
C18_AttemptsBounded == Len(call.seen) <= AttemptBound(call.script)

\* the remote store answered the attempt of the pending call with r
Answered(r) == call.status = "pending" /\ call'.seen = Append(call.seen, r)

\* the wrapper has a retry left for the pending call
RetryLeft ==
  IF call.script = "jira-sync-comprehensive" THEN call.retries < MAX_RETRIES
  ELSE Len(call.seen) + 1 < RequestAttempts

\* C19: a server error (5xx) is transient: when the call has a retry left, the
\* wrapper attempts it again instead of reporting a failure, as it does for a
\* rate-limit response and for a timeout.
C19_ServerErrorRetried ==
  [][(Answered("500") /\ RetryLeft) => call'.status = "pending"]_vars

\* every answer the call got was a transient failure
OnlyTransient == \A i \in 1..Len(call.seen) : call.seen[i] \in {"429", "500", "timeout"}

\* C20: a call that ended after transient failures only (its retries are
\* exhausted, no attempt succeeded) makes its operation report failure to the
\* caller, so the entity is not counted as created, updated or linked.
C20_ExhaustedReportsFailure ==
  (/\ call.status \notin {"idle", "pending"}
   /\ call.op \in {"create_issue", "update_issue", "create_link", "create_issue_link"}
   /\ OnlyTransient)
  => call.result = "failure"

\* C26: a delete call answered "not found" is reported as a success: the
\* issue is already gone and is counted as deleted.
C26_NotFoundIsSatisfied ==
  (call.op = "delete_issue" /\ call.seen = <<"404">>) => call.result = "success"

\* C33: the attempts of one create-issue call, retries after a timeout
\* included, make the store apply the creation at most once.
C33_CreateAppliedOnce == call.op = "create_issue" => call.applied <= 1

\* C21: a client error (a 4xx that is not the rate-limit signal) ends the call
\* at that attempt, and the operation reports a failure to its caller, which
\* records it and goes on with the next entity.
C21_PermanentErrorOnce ==
  [][Answered("400") => (call'.status = "raised" /\ call'.result = "failure")]_vars

(***************************************************************************)
(* Properties of main of jira-sync-all.py, checked under SpecMain.         *)
(***************************************************************************)
\* C22: a remote call that fails for one entity does not end the run: unless
\* the process is killed, the step after which a failure is counted leaves
\* the run in one of its phases, on its way to the summary.
C22_FailureDoesNotAbort ==
  [][(fails' > fails /\ crashes' = crashes)
       => pc' \in {"create", "links", "convert", "update", "validate", "done"}]_vars

\* C25: a run with --dry-run changes neither the documents nor the remote
\* store, whatever --reset and --clean-jira say.
C25_DryRunChangesNothing ==
  [][pc' = "dry" => (docs' = docs /\ issues' = issues /\ links' = links)]_vars

(***************************************************************************)
(* Properties of jira-sync-comprehensive.py, checked under SpecComp.       *)
(***************************************************************************)
\* the key the SyncState file records for an entity
RecordedKey(sf, e) ==
  CASE e \in Epics -> Get(sf.epics, EpicDir(e))
    [] e \in Stories -> Get(sf.stories, CompStoryId(e))
    [] OTHER -> Get(sf.tasks, CompTaskId(e))

\* C3: once an entity has a remote key, in the JIRA Key row of its document or
\* in the SyncState file, no later step records a different key for it.
C3_KeyNeverReassigned ==
  [][\A e \in Entities :
        /\ (docs[e].key # "" => docs'[e].key = docs[e].key)
        /\ (RecordedKey(state_file, e) # ""
              => RecordedKey(state_file', e) = RecordedKey(state_file, e))]_vars

====
